---- MODULE Spec2Model ----
(***************************************************************************)
(* A model of slo_lambda/src/windowed_slo.py: the windowed SLI publisher.  *)
(*                                                                         *)
(* One invocation: the module is imported (the environment is read), then  *)
(* lambda_handler checks the configuration, parse_sli_json builds the SLI  *)
(* objects and publish_slis reads every constituent metric of every SLI    *)
(* from CloudWatch and writes one data point per SLI.  The backend is the  *)
(* environment: each call to it answers nondeterministically.              *)
(***************************************************************************)
EXTENDS Integers, Sequences, FiniteSets, TLC

VARIABLES
    env,          \* the process environment: SLI_NAMESPACE, SLI_PREFIX, SLIS, WINDOW_DAYS
    pc,           \* "import", "handler", "parse", "parsed", "read", "put", "done", "raised"
    err,          \* the exception that ended the invocation, "none" while there is none
    WINDOW_DAYS,  \* the module global of that name, unbound until the import
    client,       \* Cloudwatch.cloudwatch_client is not None
    slis,         \* the mapping parse_sli_json returned, in insertion order
    idx,          \* publish_slis: position of the loop in slis
    part,         \* get_ratio: "num" while numerator.sum() runs, then "den"
    k,            \* CompositeMetric.sum: constituents of the part already summed
    total,        \* CompositeMetric.sum: its local total
    numSum,       \* get_ratio: the value numerator.sum() returned
    outcomes,     \* history: how get_ratio ended for each SLI the loop has reached
    reads,        \* history: the get_metric_statistics calls issued, in order
    writes,       \* history: the put_metric_data calls issued, in order
    got           \* history kept by the probed backend: the answers of the current get_ratio

vars == <<env, pc, err, WINDOW_DAYS, client, slis, idx, part, k, total, numSum,
          outcomes, reads, writes, got>>

(***************************************************************************)
(* Bounds of the model.                                                    *)
(***************************************************************************)
MaxPoints == 2      \* datapoints in one backend answer
MaxVal == 1         \* largest statistic value of a datapoint

(***************************************************************************)
(* Results of calls: a value, or the exception raised.                     *)
(***************************************************************************)
Ok(v) == [err |-> "none", val |-> v]
Raise(e) == [err |-> e, val |-> 0]

(***************************************************************************)
(* JSON values, as json.loads returns them.  An object other than the      *)
(* top-level mapping is a record of its members; the top-level mapping     *)
(* keeps the order of its members.                                         *)
(***************************************************************************)
JNull == [t |-> "null"]
JInt(n) == [t |-> "int", n |-> n]
JStr(s) == [t |-> "str", s |-> s]
JList(items) == [t |-> "list", items |-> items]
JObj(f) == [t |-> "obj", f |-> f]
JMap(items) == [t |-> "map", items |-> items]

Has(o, key) == key \in DOMAIN o.f

\* Python truth value of a JSON value.
Truthy(v) ==
    CASE v.t = "null" -> FALSE
      [] v.t = "int" -> v.n # 0
      [] v.t = "str" -> v.s # ""
      [] v.t = "list" -> v.items # <<>>
      [] v.t = "obj" -> DOMAIN v.f # {}
      [] OTHER -> TRUE

Get(o, key, default) == IF Has(o, key) THEN o.f[key] ELSE default

(***************************************************************************)
(* The process environment.  A variable is unset or holds a text.  The     *)
(* text of WINDOW_DAYS is a sequence of characters; the text of SLIS is    *)
(* described by what json.loads makes of it: a syntax error, or a value.   *)
(***************************************************************************)
Unset == [set |-> FALSE]
EnvText(v) == [set |-> TRUE, v |-> v]
BadJson == [valid |-> FALSE]
JsonText(doc) == [valid |-> TRUE, doc |-> doc]

Digits == <<"0", "1", "2", "3", "4", "5", "6", "7", "8", "9">>
IsDigit(c) == \E d \in 1..Len(Digits) : Digits[d] = c
DigitVal(c) == (CHOOSE d \in 1..Len(Digits) : Digits[d] = c) - 1

RECURSIVE DecimalValue(_, _)
DecimalValue(cs, acc) ==
    IF cs = <<>> THEN acc ELSE DecimalValue(Tail(cs), acc * 10 + DigitVal(Head(cs)))

\* int(x) for x = os.getenv(...): None is a TypeError, a text that is not an
\* optionally signed run of digits is a ValueError.
PyIntOfEnv(x) ==
    IF ~x.set THEN Raise("TypeError")
    ELSE LET cs == x.v
             signed == cs # <<>> /\ Head(cs) \in {"-", "+"}
             ds == IF signed THEN Tail(cs) ELSE cs
         IN  IF ds = <<>> \/ \E i \in 1..Len(ds) : ~IsDigit(ds[i])
             THEN Raise("ValueError")
             ELSE Ok(IF signed /\ Head(cs) = "-" THEN 0 - DecimalValue(ds, 0)
                     ELSE DecimalValue(ds, 0))

\* A slip: a default of 30 days where the environment gives no integer.
ModuleWindowDays_Default(x) == IF PyIntOfEnv(x).err # "none" THEN Ok(30) ELSE PyIntOfEnv(x)

\* Module level, line 22: WINDOW_DAYS = int(os.getenv("WINDOW_DAYS")).
ModuleWindowDays(x) == PyIntOfEnv(x)

(***************************************************************************)
(* SingleMetric.__init__                                                   *)
(***************************************************************************)
SingleMetricRequired == {"namespace", "metric_name", "dimensions"}
SingleMetricOptional == {"statistic", "extended_statistic", "multiplier"}

\* float(s) for the texts the model's configurations use.
FloatOfStr(s) ==
    CASE s = "1" -> Ok(1)
      [] s = "2" -> Ok(2)
      [] OTHER -> Raise("ValueError")

\* float(multiplier), line 76.
PyFloat(v) ==
    CASE v.t = "int" -> Ok(v.n)
      [] v.t = "str" -> FloatOfStr(v.s)
      [] OTHER -> Raise("TypeError")

\* datetime.timedelta(days=window_days), line 80: the days are a number of
\* magnitude at most 999999999.
TimedeltaMaxDays == 999999999
Timedelta(w) ==
    IF w.t # "int" THEN Raise("TypeError")
    ELSE IF w.n > TimedeltaMaxDays \/ w.n < 0 - TimedeltaMaxDays THEN Raise("OverflowError")
    ELSE Ok(w.n)

\* Lines 84-90: the statistic requested from the backend and extracted from
\* its datapoints.
StatArgs(statistic, extended_statistic) ==
    IF Truthy(extended_statistic)
    THEN [kind |-> "ExtendedStatistics", name |-> extended_statistic, statistic |-> statistic]
    ELSE IF Truthy(statistic)
    THEN [kind |-> "Statistics", name |-> statistic, statistic |-> statistic]
    ELSE [kind |-> "Statistics", name |-> JStr("Sum"), statistic |-> JStr("Sum")]

\* SingleMetric(window_days=window_days, **m), lines 61-90 and 123.
SingleMetric_init(window_days, m) ==
    IF m.t # "obj" THEN Raise("TypeError")
    ELSE IF Has(m, "window_days") THEN Raise("TypeError")
    ELSE IF ~(DOMAIN m.f \subseteq SingleMetricRequired \cup SingleMetricOptional)
    THEN Raise("TypeError")
    ELSE IF ~(SingleMetricRequired \subseteq DOMAIN m.f) THEN Raise("TypeError")
    ELSE LET mult == PyFloat(Get(m, "multiplier", JInt(1)))
             delta == Timedelta(window_days)
             statistic == Get(m, "statistic", JNull)
             extended == Get(m, "extended_statistic", JNull)
             args == StatArgs(statistic, extended)
         IN  IF mult.err # "none" THEN Raise(mult.err)
             ELSE IF delta.err # "none" THEN Raise(delta.err)
             ELSE Ok([namespace |-> m.f.namespace,
                      metric_name |-> m.f.metric_name,
                      dimensions |-> m.f.dimensions,
                      statistic |-> args.statistic,
                      extended_statistic |-> extended,
                      multiplier |-> mult.val,
                      days |-> delta.val,
                      Period |-> delta.val * 24 * 60 * 60,
                      stat_kind |-> args.kind,
                      stat_name |-> args.name])

(***************************************************************************)
(* CompositeMetric.__init__                                                *)
(***************************************************************************)
\* What "for m in metrics" iterates over: the items of a list, the characters
\* of a text, the keys of an object; anything else is not iterable.
Iterate(v) ==
    CASE v.t = "list" -> Ok(v.items)
      [] v.t = "str" -> Ok([i \in 1..Len(v.s) |-> JStr("c")])
      [] v.t = "obj" -> Ok([i \in 1..Cardinality(DOMAIN v.f) |-> JStr("key")])
      [] OTHER -> Raise("TypeError")

RECURSIVE BuildMetrics(_, _, _)
BuildMetrics(window_days, items, built) ==
    IF items = <<>> THEN Ok(built)
    ELSE LET m == SingleMetric_init(window_days, Head(items))
         IN  IF m.err # "none" THEN Raise(m.err)
             ELSE BuildMetrics(window_days, Tail(items), Append(built, m.val))

CompositeMetric_init(window_days, metrics) ==
    LET it == Iterate(metrics)
    IN  IF it.err # "none" THEN Raise(it.err)
        ELSE BuildMetrics(window_days, it.val, <<>>)

(***************************************************************************)
(* SLI.__init__                                                            *)
(***************************************************************************)
SLIRequired == {"numerator", "denominator"}
SLIOptional == {"window_days"}

\* A slip: "if not window_days" for "if window_days is None".
ResolveWindow_Falsy(cfg, wd) ==
    LET w == Get(cfg, "window_days", JInt(wd))
    IN  IF ~Truthy(w) THEN JInt(wd) ELSE w

\* Lines 164-167: the window of an SLI, wd being the module's WINDOW_DAYS.
ResolveWindow(cfg, wd) ==
    LET w == Get(cfg, "window_days", JInt(wd))
    IN  IF w.t = "null" THEN JInt(wd) ELSE w

\* SLI(**sli_config), lines 160-169 and 226.
SLI_init(cfg, wd) ==
    IF cfg.t # "obj" THEN Raise("TypeError")
    ELSE IF ~(DOMAIN cfg.f \subseteq SLIRequired \cup SLIOptional) THEN Raise("TypeError")
    ELSE IF ~(SLIRequired \subseteq DOMAIN cfg.f) THEN Raise("TypeError")
    ELSE LET window_days == ResolveWindow(cfg, wd)
             num == CompositeMetric_init(window_days, cfg.f.numerator)
             den == CompositeMetric_init(window_days, cfg.f.denominator)
         IN  IF num.err # "none" THEN Raise(num.err)
             ELSE IF den.err # "none" THEN Raise(den.err)
             ELSE Ok([numerator |-> num.val, denominator |-> den.val])

(***************************************************************************)
(* parse_sli_json                                                          *)
(***************************************************************************)
\* Line 227: the exceptions an entry may raise and be skipped.
SkippedInParse(e) == e \in {"KeyError", "TypeError", "ValueError"}

RECURSIVE ParseEntries(_, _, _)
ParseEntries(items, wd, built) ==
    IF items = <<>> THEN Ok(built)
    ELSE LET sli == SLI_init(Head(items).cfg, wd)
         IN  IF sli.err = "none"
             THEN ParseEntries(Tail(items), wd,
                               Append(built, [name |-> Head(items).name, sli |-> sli.val]))
             ELSE IF SkippedInParse(sli.err) THEN ParseEntries(Tail(items), wd, built)
             ELSE Raise(sli.err)

\* Lines 220-230.  json.loads raises on a syntax error; a value that is not a
\* mapping has no items().
parse_sli_json(sli_json, wd) ==
    IF ~sli_json.valid THEN Raise("JSONDecodeError")
    ELSE IF sli_json.doc.t # "map" THEN Raise("AttributeError")
    ELSE ParseEntries(sli_json.doc.items, wd, <<>>)

(***************************************************************************)
(* The backend.  get_metric_statistics raises or answers with datapoints;  *)
(* a datapoint carries the statistic that was requested, or (a malformed   *)
(* answer) does not carry it.                                              *)
(***************************************************************************)
ApiErrors == {"ClientError", "BotoCoreError"}

StatValues == 0..MaxVal

SeqsUpTo(S, n) == UNION {[1..l -> S] : l \in 0..n}

Datapoint(kind, key, v) == [kind |-> kind, key |-> key, v |-> v]
MalformedDatapoint == Datapoint("none", JNull, 0)

DatapointsFor(m) ==
    {MalformedDatapoint} \cup {Datapoint(m.stat_kind, m.stat_name, v) : v \in StatValues}

Failed(e) == [err |-> e, dps |-> <<>>]
Answered(dps) == [err |-> "none", dps |-> dps]

AnswersFor(m) ==
    {Failed(e) : e \in ApiErrors} \cup {Answered(d) : d \in SeqsUpTo(DatapointsFor(m), MaxPoints)}

(***************************************************************************)
(* SingleMetric.sum, SingleMetric.extract_stat, CompositeMetric.sum        *)
(***************************************************************************)
\* Lines 107-114.
extract_stat(m, datapoint) ==
    IF Truthy(m.extended_statistic)
    THEN IF datapoint.kind = "ExtendedStatistics" /\ datapoint.key = m.extended_statistic
         THEN Ok(datapoint.v) ELSE Raise("KeyError")
    ELSE IF datapoint.kind = "Statistics" /\ datapoint.key = m.statistic
         THEN Ok(datapoint.v) ELSE Raise("KeyError")

RECURSIVE SumDatapoints(_, _, _)
SumDatapoints(m, dps, acc) ==
    IF dps = <<>> THEN Ok(acc)
    ELSE LET v == extract_stat(m, Head(dps))
         IN  IF v.err # "none" THEN Raise(v.err)
             ELSE SumDatapoints(m, Tail(dps), acc + v.val)

\* A slip: the multiplier forgotten.
SingleMetric_sum_Unscaled(m, answer) ==
    IF answer.err # "none" THEN Raise(answer.err)
    ELSE LET t == SumDatapoints(m, answer.dps, 0)
         IN  IF t.err # "none" THEN Raise(t.err) ELSE Ok(t.val)

\* Lines 92-105, given the answer of get_metric_statistics.
SingleMetric_sum(m, answer) ==
    IF answer.err # "none" THEN Raise(answer.err)
    ELSE LET t == SumDatapoints(m, answer.dps, 0)
         IN  IF t.err # "none" THEN Raise(t.err) ELSE Ok(t.val * m.multiplier)

\* A slip: a failed constituent counted as nothing and the sum carried on.
CompositeAdd_Swallow(t, r) == IF r.err # "none" THEN Ok(t) ELSE Ok(t + r.val)

\* Line 129, total += m.sum(): an exception of m.sum() leaves the loop.
CompositeAdd(t, r) == IF r.err # "none" THEN Raise(r.err) ELSE Ok(t + r.val)

(***************************************************************************)
(* publish_slis: the loop between two backend calls.                       *)
(***************************************************************************)
\* A slip: the handler of the backend errors left out.
CaughtInPublish_ZeroOnly(e) == e = "ZeroDivisionError"

\* Lines 189-197: the exceptions of get_ratio that skip the SLI.
CaughtInPublish(e) == e \in {"ZeroDivisionError", "ClientError", "BotoCoreError"}

\* A slip: the separator left out of the metric name.
MetricNameOf_NoDash(sli_prefix, sli_name) == sli_prefix \o sli_name

\* Line 202.
MetricNameOf(sli_prefix, sli_name) == sli_prefix \o "-" \o sli_name

\* Line 178: the value of the division, kept as the pair of its operands.
Ratio(n, d) == [num |-> n, den |-> d]
NoValue == Ratio(0, 0)

Outcome(name, kind, value) == [name |-> name, kind |-> kind, value |-> value]

\* The loop runs from a position p = [pc, err, idx, part, k, total, numSum,
\* outcomes] to its next backend call, to its end or to the exception that
\* leaves it.
RECURSIVE Settle(_, _)
RECURSIVE publish_except(_, _, _)

Settle(S, p) ==
    IF p.idx > Len(S) THEN [p EXCEPT !.pc = "done"]
    ELSE LET sli == S[p.idx].sli
         IN  IF p.part = "num"
             THEN IF p.k < Len(sli.numerator) THEN [p EXCEPT !.pc = "read"]
                  ELSE Settle(S, [p EXCEPT !.part = "den", !.k = 0,
                                           !.numSum = p.total, !.total = 0])
             ELSE IF p.k < Len(sli.denominator) THEN [p EXCEPT !.pc = "read"]
             ELSE IF p.total = 0 THEN publish_except(S, p, "ZeroDivisionError")
             ELSE [p EXCEPT !.pc = "put",
                            !.outcomes = Append(@, Outcome(S[p.idx].name, "ok",
                                                           Ratio(p.numSum, p.total)))]

NextSLI(p) == [p EXCEPT !.idx = p.idx + 1, !.part = "num", !.k = 0, !.total = 0, !.numSum = 0]

publish_except(S, p, e) ==
    LET q == [p EXCEPT !.outcomes = Append(@, Outcome(S[p.idx].name, e, NoValue))]
    IN  IF CaughtInPublish(e) THEN Settle(S, NextSLI(q))
        ELSE [q EXCEPT !.pc = "raised", !.err = e]

Here == [pc |-> pc, err |-> err, idx |-> idx, part |-> part, k |-> k, total |-> total,
         numSum |-> numSum, outcomes |-> outcomes]

Goto(p) ==
    /\ pc' = p.pc
    /\ err' = p.err
    /\ idx' = p.idx
    /\ part' = p.part
    /\ k' = p.k
    /\ total' = p.total
    /\ numSum' = p.numSum
    /\ outcomes' = p.outcomes

CurrentMetric ==
    LET sli == slis[idx].sli
    IN  IF part = "num" THEN sli.numerator[k + 1] ELSE sli.denominator[k + 1]

(***************************************************************************)
(* The actions.                                                            *)
(***************************************************************************)
Fail(e) ==
    /\ pc' = "raised"
    /\ err' = e

\* Lines 16-22: the import reads the environment.
ImportModule ==
    /\ pc = "import"
    /\ LET w == ModuleWindowDays(env.WINDOW_DAYS)
       IN  IF w.err # "none"
           THEN Fail(w.err) /\ UNCHANGED WINDOW_DAYS
           ELSE /\ WINDOW_DAYS' = [bound |-> TRUE, v |-> w.val]
                /\ pc' = "handler"
                /\ UNCHANGED err
    /\ UNCHANGED <<env, client, slis, idx, part, k, total, numSum, outcomes, reads, writes, got>>

Start == [pc |-> "read", err |-> "none", idx |-> 1, part |-> "num", k |-> 0, total |-> 0,
          numSum |-> 0, outcomes |-> <<>>]

\* Lines 233-246, up to the first backend call of publish_slis.
lambda_handler ==
    /\ pc = "handler"
    /\ IF ~env.SLI_NAMESPACE.set \/ ~env.SLI_PREFIX.set \/ ~env.SLIS.set
       THEN /\ Fail("RuntimeError")
            /\ UNCHANGED <<slis, idx, part, k, total, numSum, outcomes>>
       ELSE LET parsed == parse_sli_json(env.SLIS.v, WINDOW_DAYS.v)
            IN  IF parsed.err # "none"
                THEN /\ Fail(parsed.err)
                     /\ UNCHANGED <<slis, idx, part, k, total, numSum, outcomes>>
                ELSE /\ slis' = parsed.val
                     /\ Goto(Settle(parsed.val, Start))
    /\ UNCHANGED <<env, WINDOW_DAYS, client, reads, writes, got>>

\* parse_sli_json called on its own, lines 212-230.
ParseCall ==
    /\ pc = "parse"
    /\ LET parsed == parse_sli_json(env.SLIS.v, WINDOW_DAYS.v)
       IN  IF parsed.err # "none"
           THEN Fail(parsed.err) /\ UNCHANGED slis
           ELSE /\ slis' = parsed.val
                /\ pc' = "parsed"
                /\ UNCHANGED err
    /\ UNCHANGED <<env, WINDOW_DAYS, client, idx, part, k, total, numSum, outcomes, reads,
                   writes, got>>

\* Lines 38-39 under line 98: the first Cloudwatch.client() creates the client,
\* and boto3.client may raise; no call reaches the backend then.
ClientFails ==
    /\ pc = "read"
    /\ ~client
    /\ Goto(publish_except(slis, Here, "BotoCoreError"))
    /\ UNCHANGED <<env, WINDOW_DAYS, client, slis, reads, writes, got>>

ReadRecord(m, res) ==
    [sli |-> slis[idx].name, part |-> part, k |-> k + 1, days |-> m.days,
     Period |-> m.Period, stat_kind |-> m.stat_kind, stat_name |-> m.stat_name, res |-> res]

\* Lines 98-105 and 128-129 within get_ratio (178) and publish_slis (186-197):
\* one get_metric_statistics call, its answer a, and the code up to the next
\* backend call.
ReadStep(a) ==
    LET m == CurrentMetric
        sum == SingleMetric_sum(m, a)
        add == CompositeAdd(total, sum)
    IN  /\ pc = "read"
        /\ client' = TRUE
        /\ reads' = Append(reads, ReadRecord(m, sum.err))
        /\ IF add.err = "none"
           THEN Goto(Settle(slis, [Here EXCEPT !.k = k + 1, !.total = add.val]))
           ELSE Goto(publish_except(slis, Here, add.err))
        /\ UNCHANGED <<env, WINDOW_DAYS, slis, writes>>

ReadMetric ==
    /\ pc = "read"
    /\ \E a \in AnswersFor(CurrentMetric) : ReadStep(a) /\ UNCHANGED got

\* The same step against a backend that keeps the answers it gave to the
\* current get_ratio.
ProbedRead ==
    /\ pc = "read"
    /\ \E a \in AnswersFor(CurrentMetric) :
          /\ ReadStep(a)
          /\ got' = [sli |-> slis[idx].name,
                     answers |-> Append(IF part = "num" /\ k = 0 THEN <<>> ELSE got.answers, a)]

WriteRecord(res) ==
    [Namespace |-> env.SLI_NAMESPACE.v,
     MetricName |-> MetricNameOf(env.SLI_PREFIX.v, slis[idx].name),
     Value |-> outcomes[Len(outcomes)].value,
     res |-> res]

\* Lines 199-209: the put_metric_data call; an exception of it is not caught.
\* The client exists here: a ratio that succeeded has read its denominator.
PutMetric ==
    /\ pc = "put"
    /\ \E res \in {"ok"} \cup ApiErrors :
          /\ writes' = Append(writes, WriteRecord(res))
          /\ IF res = "ok" THEN Goto(Settle(slis, NextSLI(Here)))
             ELSE Goto([Here EXCEPT !.pc = "raised", !.err = res])
    /\ UNCHANGED <<env, WINDOW_DAYS, client, slis, reads, got>>

(***************************************************************************)
(* The inputs: environments and SLI configurations.                        *)
(***************************************************************************)
SLINames == <<"availability", "latency">>

MetricSpec(name) ==
    [namespace |-> JStr("app/sli"), metric_name |-> JStr(name), dimensions |-> JList(<<>>)]

Good == JObj(MetricSpec("Good"))
AllRequests == JObj(MetricSpec("Total"))
Fast == JObj([namespace |-> JStr("app/sli"), metric_name |-> JStr("Fast"),
              dimensions |-> JList(<<>>), statistic |-> JStr("Average"),
              extended_statistic |-> JStr("p99"), multiplier |-> JInt(2)])
Mean == JObj([namespace |-> JStr("app/sli"), metric_name |-> JStr("Mean"),
              dimensions |-> JList(<<>>), statistic |-> JStr("Average")])

Entry(num, den) == [numerator |-> JList(num), denominator |-> JList(den)]
EntryW(num, den, w) == [numerator |-> JList(num), denominator |-> JList(den), window_days |-> w]

\* The entries of the batch runs: the window absent, null, zero and given, and
\* one entry without its numerator.
BatchEntries ==
    { JObj(Entry(<<Good>>, <<AllRequests>>)),
      JObj(EntryW(<<Good, Fast>>, <<AllRequests>>, JNull)),
      JObj(EntryW(<<Good>>, <<AllRequests>>, JInt(0))),
      JObj(EntryW(<<Good>>, <<AllRequests>>, JInt(2))),
      JObj([denominator |-> JList(<<AllRequests>>)]) }

\* The entries of the runs against the probed backend.
RatioEntries ==
    { JObj(Entry(<<Good>>, <<AllRequests>>)),
      JObj(Entry(<<Mean, Fast>>, <<AllRequests>>)),
      JObj(Entry(<<Fast, Good>>, <<Mean>>)) }

WithField(spec, key, v) == JObj([x \in DOMAIN spec \cup {key} |-> IF x = key THEN v ELSE spec[x]])
Without(spec, key) == JObj([x \in DOMAIN spec \ {key} |-> spec[x]])

GoodEntry == Entry(<<Good>>, <<AllRequests>>)
NumeratorIs(v) == WithField(GoodEntry, "numerator", v)

\* The entries parse_sli_json is called on by itself: well-formed ones, and
\* ones with a field missing, of another type, or of an invalid value.
ParseInputs ==
    { JObj(GoodEntry),
      JObj(EntryW(<<Good, Fast>>, <<AllRequests>>, JInt(7))),
      WithField(GoodEntry, "window_days", JNull),
      Without(GoodEntry, "numerator"),
      Without(GoodEntry, "denominator"),
      NumeratorIs(JInt(5)),
      NumeratorIs(JNull),
      NumeratorIs(JStr("Good")),
      NumeratorIs(JStr("")),
      NumeratorIs(Good),
      NumeratorIs(JList(<<JStr("Good")>>)),
      NumeratorIs(JList(<<Without(MetricSpec("Good"), "namespace")>>)),
      NumeratorIs(JList(<<Without(MetricSpec("Good"), "metric_name")>>)),
      NumeratorIs(JList(<<Good, Without(MetricSpec("Good"), "dimensions")>>)),
      NumeratorIs(JList(<<WithField(MetricSpec("Good"), "namespace", JInt(5))>>)),
      NumeratorIs(JList(<<WithField(MetricSpec("Good"), "dimensions", JStr("host"))>>)),
      NumeratorIs(JList(<<WithField(MetricSpec("Good"), "multiplier", JStr("abc"))>>)),
      NumeratorIs(JList(<<WithField(MetricSpec("Good"), "multiplier", JStr("2"))>>)),
      NumeratorIs(JList(<<WithField(MetricSpec("Good"), "multiplier", JNull)>>)),
      NumeratorIs(JList(<<WithField(MetricSpec("Good"), "statistic", JStr("Bogus"))>>)),
      NumeratorIs(JList(<<WithField(MetricSpec("Good"), "window_days", JInt(1))>>)),
      WithField(GoodEntry, "window_days", JInt(0 - 1)),
      WithField(GoodEntry, "window_days", JStr("7")),
      WithField(GoodEntry, "window_days", JInt(TimedeltaMaxDays + 1)),
      WithField(GoodEntry, "threshold", JInt(1)),
      JInt(1) }

Named(es) == JMap([i \in 1..Len(es) |-> [name |-> SLINames[i], cfg |-> es[i]]])

MappingsOver(E, n) == {Named(es) : es \in SeqsUpTo(E, n)}

BatchSLIS ==
    {Unset, EnvText(BadJson), EnvText(JsonText(JList(<<>>)))}
    \cup {EnvText(JsonText(c)) : c \in MappingsOver(BatchEntries, Len(SLINames))}

WindowTexts == {Unset, EnvText(<<"x">>), EnvText(<<"1", ".", "5">>), EnvText(<<"3">>)}

BatchEnvs ==
    [SLI_NAMESPACE : {Unset, EnvText("slo")},
     SLI_PREFIX : {Unset, EnvText("prod")},
     SLIS : BatchSLIS,
     WINDOW_DAYS : WindowTexts]

RatioEnvs ==
    [SLI_NAMESPACE : {EnvText("slo")},
     SLI_PREFIX : {EnvText("prod")},
     SLIS : {EnvText(JsonText(Named(<<e>>))) : e \in RatioEntries},
     WINDOW_DAYS : {EnvText(<<"3">>)}]

ParseEnvs ==
    [SLI_NAMESPACE : {EnvText("slo")},
     SLI_PREFIX : {EnvText("prod")},
     SLIS : {EnvText(JsonText(c)) : c \in MappingsOver(ParseInputs, Len(SLINames))},
     WINDOW_DAYS : {EnvText(<<"3">>)}]

(***************************************************************************)
(* The specifications.                                                     *)
(***************************************************************************)
Fresh ==
    /\ err = "none"
    /\ client = FALSE
    /\ slis = <<>>
    /\ idx = 0
    /\ part = "num"
    /\ k = 0
    /\ total = 0
    /\ numSum = 0
    /\ outcomes = <<>>
    /\ reads = <<>>
    /\ writes = <<>>
    /\ got = [sli |-> "", answers |-> <<>>]

\* One invocation over a batch.
Init ==
    /\ env \in BatchEnvs
    /\ pc = "import"
    /\ WINDOW_DAYS = [bound |-> FALSE]
    /\ Fresh

Next ==
    \/ ImportModule
    \/ lambda_handler
    \/ ClientFails
    \/ ReadMetric
    \/ PutMetric

Spec == Init /\ [][Next]_vars

\* One invocation over a single SLI, against the probed backend.
InitRatio ==
    /\ env \in RatioEnvs
    /\ pc = "import"
    /\ WINDOW_DAYS = [bound |-> FALSE]
    /\ Fresh

NextRatio ==
    \/ ImportModule
    \/ lambda_handler
    \/ ClientFails
    \/ ProbedRead
    \/ PutMetric

SpecRatio == InitRatio /\ [][NextRatio]_vars

\* parse_sli_json called by itself, the module imported.
InitParse ==
    /\ env \in ParseEnvs
    /\ pc = "parse"
    /\ WINDOW_DAYS = [bound |-> TRUE, v |-> ModuleWindowDays(env.WINDOW_DAYS).val]
    /\ Fresh

NextParse == ParseCall

SpecParse == InitParse /\ [][NextParse]_vars

(***************************************************************************)
(* What the properties below speak of.                                     *)
(***************************************************************************)
\* The configuration entry of the SLI of that name, as it stands in SLIS.
RawEntry(name) ==
    LET items == env.SLIS.v.doc.items
    IN  items[CHOOSE i \in 1..Len(items) : items[i].name = name].cfg

Names(seq) == [i \in 1..Len(seq) |-> seq[i].name]

GetRatioFailures == {"ZeroDivisionError", "ClientError", "BotoCoreError"}

WrittenFor(name) ==
    \E i \in 1..Len(writes) : writes[i].MetricName = env.SLI_PREFIX.v \o "-" \o name

\* The SLIs whose turn in the loop is over: at "put" the last one's is not.
Settled == IF pc = "put" THEN Len(outcomes) - 1 ELSE Len(outcomes)

IsOk(o) == o.kind = "ok"

(***************************************************************************)
(* C1.  If the put_metric_data call of an SLI fails, publish_slis does not *)
(* raise, and the SLIs after it are still evaluated: a run that ends has   *)
(* reached every SLI.                                                      *)
(***************************************************************************)
C1_PutFailureDoesNotAbort ==
    (\E i \in 1..Len(writes) : writes[i].res # "ok") =>
        /\ pc # "raised"
        /\ pc = "done" => Len(outcomes) = Len(slis)

C3_MalformedAnswerIsSkipped ==
    \A j \in 1..Len(outcomes) :
        outcomes[j].kind = "KeyError" =>
            /\ ~WrittenFor(outcomes[j].name)
            /\ pc # "raised"
            /\ idx > j

(***************************************************************************)
(* C4.  At every point of publish_slis the writes issued so far are, in    *)
(* mapping order, one data point for each SLI whose turn is over and whose *)
(* ratio succeeded, named prefix-name, in the namespace, valued with that  *)
(* SLI's ratio; no other SLI has a data point.                             *)
(***************************************************************************)
C4_WritesAreTheSucceededRatios ==
    LET expected == SelectSeq(SubSeq(outcomes, 1, Settled), IsOk)
    IN  /\ Len(outcomes) <= Len(slis)
        /\ \A j \in 1..Len(outcomes) : outcomes[j].name = slis[j].name
        /\ Len(writes) = Len(expected)
        /\ \A i \in 1..Len(writes) :
              /\ writes[i].MetricName = env.SLI_PREFIX.v \o "-" \o expected[i].name
              /\ writes[i].Namespace = env.SLI_NAMESPACE.v
              /\ writes[i].Value = expected[i].value

C4_Witness ==
    /\ Len(writes) = 2
    /\ writes[1].Value # writes[2].Value
    /\ writes[2].res = "ok"

\* A text that reads as an integer: digits, a sign before them or none.
IsIntegerText(cs) ==
    LET ds == IF cs # <<>> /\ Head(cs) \in {"-", "+"} THEN Tail(cs) ELSE cs
    IN  ds # <<>> /\ \A i \in 1..Len(ds) : IsDigit(ds[i])

BadConfiguration ==
    \/ ~env.SLI_NAMESPACE.set
    \/ ~env.SLI_PREFIX.set
    \/ ~env.SLIS.set
    \/ ~env.SLIS.v.valid
    \/ env.SLIS.v.doc.t # "map"
    \/ ~env.WINDOW_DAYS.set
    \/ ~IsIntegerText(env.WINDOW_DAYS.v)

(***************************************************************************)
(* C7.  With SLI_NAMESPACE, SLI_PREFIX or SLIS unset, SLIS not the text of *)
(* a JSON mapping, or WINDOW_DAYS unset or not an integer, the invocation  *)
(* gets no further than its failure: no SLI is reached, no backend read    *)
(* and no backend write is issued.                                         *)
(***************************************************************************)
C7_BadConfigurationStopsFirst ==
    BadConfiguration =>
        /\ pc \in {"import", "handler", "raised"}
        /\ reads = <<>>
        /\ writes = <<>>
        /\ outcomes = <<>>
        /\ ~client

C7_Witness ==
    /\ pc = "raised"
    /\ err = "AttributeError"
    /\ env.SLI_NAMESPACE.set
    /\ env.SLI_PREFIX.set
    /\ WINDOW_DAYS.bound

(***************************************************************************)
(* The sums of an SLI as its configuration entry and the backend's answers *)
(* give them.                                                              *)
(***************************************************************************)
ConfiguredKey(ms) ==
    IF Has(ms, "extended_statistic") /\ Truthy(ms.f.extended_statistic)
    THEN <<"ExtendedStatistics", ms.f.extended_statistic>>
    ELSE IF Has(ms, "statistic") /\ Truthy(ms.f.statistic)
    THEN <<"Statistics", ms.f.statistic>>
    ELSE <<"Statistics", JStr("Sum")>>

ConfiguredMultiplier(ms) == IF Has(ms, "multiplier") THEN ms.f.multiplier.n ELSE 1

Carries(dp, key) == <<dp.kind, dp.key>> = key

Clean(ms, answer) ==
    /\ answer.err = "none"
    /\ \A i \in 1..Len(answer.dps) : Carries(answer.dps[i], ConfiguredKey(ms))

RECURSIVE ValuesSum(_)
ValuesSum(dps) == IF dps = <<>> THEN 0 ELSE Head(dps).v + ValuesSum(Tail(dps))

\* The sum of constituents from..to of specs, answers being the backend's.
RECURSIVE WeightedSum(_, _, _, _)
WeightedSum(specs, answers, from, to) ==
    IF from > to THEN 0
    ELSE ConfiguredMultiplier(specs[from]) * ValuesSum(answers[from].dps)
         + WeightedSum(specs, answers, from + 1, to)

(***************************************************************************)
(* C8.  When every answer of the backend carries the configured statistic  *)
(* (the extended statistic if one is configured, else the named statistic, *)
(* else Sum) and the denominator's sum is not zero, get_ratio returns the  *)
(* numerator's sum over the denominator's sum, unclamped and unrounded,    *)
(* each sum being, over the constituents in declared order, the multiplier *)
(* times the sum of that statistic over all the datapoints answered.       *)
(***************************************************************************)
C8_RatioIsTheQuotientOfTheSums ==
    got.sli # "" =>
        LET raw == RawEntry(got.sli)
            specs == raw.f.numerator.items \o raw.f.denominator.items
            n == Len(raw.f.numerator.items)
            numerator == WeightedSum(specs, got.answers, 1, n)
            denominator == WeightedSum(specs, got.answers, n + 1, Len(specs))
        IN  (/\ Len(got.answers) = Len(specs)
             /\ \A i \in 1..Len(specs) : Clean(specs[i], got.answers[i])
             /\ denominator # 0)
            => \E j \in 1..Len(outcomes) :
                  /\ outcomes[j].name = got.sli
                  /\ IsOk(outcomes[j])
                  /\ outcomes[j].value = Ratio(numerator, denominator)

C8_Witness ==
    /\ pc = "put"
    /\ Len(got.answers) = 3
    /\ \A i \in 1..3 : Len(got.answers[i].dps) = MaxPoints
    /\ outcomes[Len(outcomes)].value.num > outcomes[Len(outcomes)].value.den

C10_NoRetries ==
    /\ \A i, j \in 1..Len(reads) :
          i < j => /\ <<reads[i].sli, reads[i].part, reads[i].k>>
                        # <<reads[j].sli, reads[j].part, reads[j].k>>
                   /\ reads[i].sli = reads[j].sli => reads[i].res = "none"
    /\ \A i, j \in 1..Len(writes) : i < j => writes[i].MetricName # writes[j].MetricName
    /\ \A i \in 1..Len(reads) : reads[i].res # "none" => ~WrittenFor(reads[i].sli)

C10_Witness ==
    /\ pc = "done"
    /\ Len(slis) = 2
    /\ Len(slis[1].sli.numerator) = 2
    /\ Len(reads) = 3
    /\ reads[1].sli = slis[1].name /\ reads[1].res = "ClientError"
    /\ reads[3].sli = slis[2].name
    /\ Len(writes) = 1

(***************************************************************************)
(* The schema of an entry of SLIS: numerator and denominator are lists of  *)
(* metric specifications; window_days, if given, is an integer (or null).  *)
(* A metric specification names its namespace and metric in texts, has a   *)
(* list of dimensions, and may name a statistic, an extended statistic and *)
(* a numeric multiplier.                                                   *)
(***************************************************************************)
RecognisedStatistics == {"SampleCount", "Average", "Sum", "Minimum", "Maximum"}

OfType(o, key, t) == Has(o, key) => o.f[key].t = t

SpecShapeOk(m) ==
    /\ m.t = "obj"
    /\ SingleMetricRequired \subseteq DOMAIN m.f
    /\ OfType(m, "namespace", "str")
    /\ OfType(m, "metric_name", "str")
    /\ OfType(m, "dimensions", "list")
    /\ OfType(m, "statistic", "str")
    /\ OfType(m, "extended_statistic", "str")
    /\ OfType(m, "multiplier", "int")

ListOfSpecs(v) == v.t = "list" /\ \A i \in 1..Len(v.items) : SpecShapeOk(v.items[i])

EntryShapeOk(e) ==
    /\ e.t = "obj"
    /\ SLIRequired \subseteq DOMAIN e.f
    /\ ListOfSpecs(e.f.numerator)
    /\ ListOfSpecs(e.f.denominator)
    /\ Has(e, "window_days") => e.f.window_days.t \in {"int", "null"}

AllSpecs(e) == e.f.numerator.items \o e.f.denominator.items

\* Of an entry of the right shape: it has no member the schema does not know.
OnlyKnownMembers(e) ==
    /\ DOMAIN e.f \subseteq SLIRequired \cup SLIOptional
    /\ \A i \in 1..Len(AllSpecs(e)) :
          DOMAIN AllSpecs(e)[i].f \subseteq SingleMetricRequired \cup SingleMetricOptional

\* Of an entry of the right shape: its values are valid.
ValuesOk(e) ==
    /\ (Has(e, "window_days") /\ e.f.window_days.t = "int") =>
          (e.f.window_days.n >= 0 /\ e.f.window_days.n <= TimedeltaMaxDays)
    /\ \A i \in 1..Len(AllSpecs(e)) :
          Has(AllSpecs(e)[i], "statistic") =>
              AllSpecs(e)[i].f.statistic.s \in RecognisedStatistics

WellFormed(e) == EntryShapeOk(e) /\ OnlyKnownMembers(e) /\ ValuesOk(e)

Entries == env.SLIS.v.doc.items

IsWellFormedItem(item) == WellFormed(item.cfg)

(***************************************************************************)
(* C5.  Of a mapping whose entries are well-formed or malformed by a       *)
(* missing field or a field of a wrong type, parse_sli_json returns the    *)
(* well-formed names, in input order, and raises nothing.                  *)
(***************************************************************************)
C5_MalformedEntriesAreDropped ==
    (/\ pc \in {"parsed", "raised"}
     /\ \A i \in 1..Len(Entries) : WellFormed(Entries[i].cfg) \/ ~EntryShapeOk(Entries[i].cfg))
    => /\ err = "none"
       /\ Names(slis) = Names(SelectSeq(Entries, IsWellFormedItem))

(***************************************************************************)
(* C6.  An entry with an invalid value (a negative window_days, a          *)
(* statistic that is not recognised) is not in the mapping parse_sli_json  *)
(* returns, and the other entries are parsed.                              *)
(***************************************************************************)
C6_InvalidValuesAreSkipped ==
    pc \in {"parsed", "raised"} =>
        \A i \in 1..Len(Entries) :
            (EntryShapeOk(Entries[i].cfg) /\ ~ValuesOk(Entries[i].cfg)) =>
                /\ err = "none"
                /\ \A j \in 1..Len(slis) : slis[j].name # Entries[i].name

====
